---- MODULE Spec2Model ----
(***************************************************************************)
(* A model of justkd/roll: the Mersenne Twister uniform generator          *)
(* (Uniform), the bounded history (History), the number helpers (Scaled),  *)
(* the Box-Muller transform (Gaussian) and the Roll facade that composes   *)
(* them.                                                                   *)
(*                                                                         *)
(* Numbers.  A JavaScript number is held as a decimal fixed-point integer  *)
(* counting units of 10^-Places, so 1.5 is 1500000 when Places = 6; NaN    *)
(* is the reserved value NaN.  Decimal digits are what floatingPointFix    *)
(* and Scaled.round work on, so both are modelled digit by digit.          *)
(*                                                                         *)
(* Words.  A 32-bit word of the generator is the set of its one bits, a    *)
(* subset of 0..31: xor, and, or and the shifts are then set operations,   *)
(* and the arithmetic of the seeding routines is done on the two 16-bit    *)
(* halves of a word, modulo 2^32 as the code's >>> 0 leaves it.            *)
(***************************************************************************)
EXTENDS Integers, Sequences, FiniteSets, TLC

(***************************************************************************)
(* Bounds of the model.                                                    *)
(***************************************************************************)
\* decimal digits kept after the point
Places == 6
\* words of generator state (624 in the code) and the twist offset (397)
N == 5
M == 3
\* draw operations explored on one Roll
MaxDraws == 3

Unit == 10 ^ Places
\* what stands for the numbers NaN, Infinity and -Infinity
NaN == 0 - (2 ^ 30)
Inf == 2 ^ 30
NegInf == 0 - (2 ^ 30 + 4)

\* The one element of a singleton.  The({e(x) : x \in {a}}) is e(a) with a
\* evaluated once, however often e uses it.
The(S) == CHOOSE r \in S : TRUE

Abs(x) == IF x < 0 THEN 0 - x ELSE x
Sign(x) == IF x < 0 THEN 0 - 1 ELSE 1
Min2(a, b) == IF a < b THEN a ELSE b
Max2(a, b) == IF a > b THEN a ELSE b

(***************************************************************************)
(* Decimal fixed-point arithmetic (the model of IEEE doubles).  Products   *)
(* and quotients are cut to Places digits.                                 *)
(***************************************************************************)
\* i-th decimal digit after the point of a non-negative number, i in 1..Places
Digit(v, i) == ((v % Unit) \div (10 ^ (Places - i))) % 10

RECURSIVE MulDigits(_, _, _)
\* a * (0.d_k d_k+1 ... d_Places of b), by Horner's rule from the last digit
MulDigits(a, b, k) ==
  IF k > Places THEN 0
  ELSE (MulDigits(a, b, k + 1) + a * Digit(b, k)) \div 10

MulAbs(a, b) == a * (b \div Unit) + MulDigits(a, b, 1)
Mul(a, b) ==
  The({Sign(x) * Sign(y) * MulAbs(Abs(x), Abs(y)) : x \in {a}, y \in {b}})

RECURSIVE DivDigits(_, _, _)
\* the first k digits after the point of r / b, for 0 <= r < b
DivDigits(r, b, k) ==
  IF k = 0 THEN 0
  ELSE The({((r10 \div b) * (10 ^ (k - 1))) + DivDigits(r10 % b, b, k - 1) :
            r10 \in {r * 10}})

DivAbs(a, b) == (a \div b) * Unit + DivDigits(a % b, b, Places)
\* a / b; 0 / 0 is NaN, and x / 0 an infinity of the sign of x
Div(a, b) ==
  The({IF y = 0 THEN (IF x = 0 THEN NaN ELSE IF x > 0 THEN Inf ELSE NegInf)
       ELSE Sign(x) * Sign(y) * DivAbs(Abs(x), Abs(y)) :
       x \in {a}, y \in {b}})

(***************************************************************************)
(* Scaled.floatingPointFix (also the private copy `fix` of Uniform.random) *)
(***************************************************************************)
Repeat == 6

\* number of digits of the decimal part as printed: trailing zeros are not
DecimalLength(frac) ==
  IF frac = 0 THEN 0
  ELSE CHOOSE n \in 1..Places :
         /\ Digit(frac, n) # 0
         /\ \A j \in (n + 1)..Places : Digit(frac, j) = 0

\* a run of `repeat` or more 9s, or of 0s, starts at digit i of the printed part
RunAt(frac, i, repeat) ==
  /\ i + repeat - 1 <= DecimalLength(frac)
  /\ \/ \A j \in i..(i + repeat - 1) : Digit(frac, j) = 9
     \/ \A j \in i..(i + repeat - 1) : Digit(frac, j) = 0

\* Number.prototype.toFixed(k): round the magnitude to k decimals, half up
ToFixed(value, k) ==
  LET m == 10 ^ (Places - k)
  IN  Sign(value) * (((Abs(value) + (m \div 2)) \div m) * m)

floatingPointFixR(value, repeat) ==
  LET mag  == Abs(value)
      frac == mag % Unit
  IN  IF value = 0 \/ value \in {NaN, Inf, NegInf} THEN value
      \* printed in exponent form below 1e-6: no digits to match
      ELSE IF mag < Unit \div (10 ^ 6) THEN value
      ELSE IF frac = 0 THEN value
      ELSE The({IF runs = {} THEN value
                ELSE ToFixed(value, (CHOOSE i \in runs : \A j \in runs : i <= j) - 1) :
                runs \in {{i \in 1..Places : RunAt(frac, i, repeat)}}})

floatingPointFix(value) == The({floatingPointFixR(v, Repeat) : v \in {value}})

(***************************************************************************)
(* Scaled: the static scale, clip and round                                *)
(***************************************************************************)
\* a scale that leaves out the start of the target range
ScaledScaleNoOffset(value, r1min, r1max, r2min, r2max) ==
  LET r1Size == floatingPointFix(r1max - r1min)
      r2Size == floatingPointFix(r2max - r2min)
      x      == floatingPointFix(value - r1min)
      y      == floatingPointFix(Mul(x, r2Size))
  IN  floatingPointFix(Div(y, r1Size))

\* Scaled.scale(value, [r1min, r1max], [r2min, r2max])
ScaledScale(value, r1min, r1max, r2min, r2max) ==
  LET r1Size == floatingPointFix(r1max - r1min)
      r2Size == floatingPointFix(r2max - r2min)
      x      == floatingPointFix(value - r1min)
      y      == floatingPointFix(Mul(x, r2Size))
  IN  The({IF z \in {NaN, Inf, NegInf} THEN z ELSE floatingPointFix(z + r2min) :
           z \in {floatingPointFix(Div(y, r1Size))}})

\* a clip that limits from below alone
ScaledClipLower(value, min, max) == floatingPointFix(Max2(min, value))

\* Scaled.clip(value, [min, max])
ScaledClip(value, min, max) ==
  LET clipMin == floatingPointFix(Max2(min, value))
  IN  floatingPointFix(Min2(clipMin, max))

\* Math.round: the nearest integer, a half going up
MathRound(x) == (x + (Unit \div 2)) \div Unit

\* Scaled.round(value, places): shift the decimal point, Math.round, shift back.
\* A value below 1e-6 prints in exponent form, and `${value}e${places}` is
\* then no number
ScaledRound(value, places) ==
  The({IF v = NaN THEN NaN
       ELSE IF v # 0 /\ Abs(v) < Unit \div (10 ^ 6) THEN NaN
       ELSE floatingPointFix((MathRound(v * (10 ^ places)) * Unit) \div (10 ^ places)) :
       v \in {value}})

(***************************************************************************)
(* 32-bit words                                                            *)
(***************************************************************************)
Xor(a, b) == The({(x \ y) \cup (y \ x) : x \in {a}, y \in {b}})
\* w >>> k and w << k
Shr(w, k) == {i - k : i \in {j \in w : j >= k}}
Shl(w, k) == {i + k : i \in {j \in w : j + k <= 31}}

RECURSIVE BitSumFrom(_, _, _)
BitSumFrom(w, lo, hi) ==
  IF hi < lo THEN 0
  ELSE (IF hi \in w THEN 2 ^ (hi - lo) ELSE 0) + BitSumFrom(w, lo, hi - 1)

\* the number whose binary digits are bits lo..hi of w
BitSum(w, lo, hi) == The({BitSumFrom(x, lo, hi) : x \in {w}})

Lo16(w) == BitSum(w, 0, 15)
Hi16(w) == BitSum(w, 16, 31)
BitsOf(n, width) == {i \in 0..(width - 1) : (n \div (2 ^ i)) % 2 = 1}
\* the word with upper half hi and lower half lo
WordOf(hi, lo) ==
  The({BitsOf(l, 16) \cup {i + 16 : i \in BitsOf(h, 16)} : h \in {hi}, l \in {lo}})
\* n >>> 0 for a non-negative integer below 2^31
ToUint32(n) == WordOf(n \div 65536, n % 65536)

\* the product of two 16-bit numbers, as its lower and upper 16 bits
Mul16(a, b) ==
  The({The({[lo |-> t % 65536, hi |-> (t \div 65536) + (p2 \div 256)] :
            t \in {a * (b % 256) + ((p2 % 256) * 256)}}) :
       p2 \in {a * (b \div 256)}})

\* (((s & 0xffff0000) >>> 16) * c) << 16) + (s & 0x0000ffff) * c, modulo 2^32
MulWord(s, c) ==
  LET ch == c \div 65536
      cl == c % 65536
  IN  The({The({WordOf((ll.hi + Mul16(sl, ch).lo + Mul16(sh, cl).lo) % 65536, ll.lo) :
                ll \in {Mul16(sl, cl)}}) :
           sh \in {Hi16(s)}, sl \in {Lo16(s)}})

\* (w + k) >>> 0 for an integer k, negative or not
AddWord(w, k) ==
  The({The({WordOf((hi + (lo \div 65536)) % 65536, lo % 65536) :
            lo \in {Lo16(x) + (k % 65536)}, hi \in {Hi16(x) + (k \div 65536)}}) :
       x \in {w}})

(***************************************************************************)
(* Uniform: the generator.  An instance is a record of the constructor's   *)
(* closure variables: seed ($state.seed), mt and mti.  A seed is a record  *)
(* [t, n, a]: t = "num" with the number n, or t = "arr" with the array a.  *)
(***************************************************************************)
Mult1 == 1812433253
Mult2 == 1664525
Mult3 == 1566083941

\* mt[i - 1] ^ (mt[i - 1] >>> 30)
Mix(m, i) == Xor(m[i - 1], Shr(m[i - 1], 30))

RECURSIVE withIntLoop(_, _)
withIntLoop(m, i) ==
  IF i < N
  THEN The({withIntLoop(m1, i1) :
            m1 \in {[m EXCEPT ![i] = AddWord(MulWord(Mix(m, i), Mult1), i)]},
            i1 \in {i + 1}})
  ELSE [mt |-> m, mti |-> i]

\* a withInt that writes the first word alone and keeps the others
withIntKeep(m, intSeed) == [mt |-> [m EXCEPT ![0] = ToUint32(intSeed)], mti |-> N]

\* $private.seed.withInt: the new mt and mti
withInt(m, intSeed) ==
  The({withIntLoop(m0, 1) : m0 \in {[m EXCEPT ![0] = ToUint32(intSeed)]}})

\* i += 1; if (i >= N) { mt[0] = mt[N - 1]; i = 1; }
Wrap(m, i) == IF i + 1 >= N THEN [m EXCEPT ![0] = m[N - 1]] ELSE m
WrapIndex(i) == IF i + 1 >= N THEN 1 ELSE i + 1

RECURSIVE withArrayPass1(_, _, _, _, _)
withArrayPass1(m, v, i, j, k) ==
  IF k > 0
  THEN The({withArrayPass1(Wrap(m1, i), v, i1, j1, k1) :
            m1 \in {[m EXCEPT ![i] =
                       AddWord(Xor(m[i], MulWord(Mix(m, i), Mult2)), v[j + 1] + j)]},
            i1 \in {WrapIndex(i)},
            j1 \in {IF j + 1 >= Len(v) THEN 0 ELSE j + 1},
            k1 \in {k - 1}})
  ELSE [mt |-> m, i |-> i]

RECURSIVE withArrayPass2(_, _, _)
withArrayPass2(m, i, k) ==
  IF k # 0
  THEN The({withArrayPass2(Wrap(m1, i), i1, k1) :
            m1 \in {[m EXCEPT ![i] =
                       AddWord(Xor(m[i], MulWord(Mix(m, i), Mult3)), 0 - i)]},
            i1 \in {WrapIndex(i)},
            k1 \in {k - 1}})
  ELSE m

\* $private.seed.withArray; v holds integers (v[1] is the code's v[0])
withArray(m, v) ==
  The({The({The({[mt  |-> IF N < 1 THEN [p2 EXCEPT ![0] = {31}] ELSE p2,
                   mti |-> w.mti] :
                 p2 \in {withArrayPass2(p1.mt, p1.i, N - 1)}}) :
            p1 \in {withArrayPass1(w.mt, v, 1, 0, IF N > Len(v) THEN N ELSE Len(v))}}) :
       w \in {withInt(m, v[1])}})

\* Uniform.createRandomSeed: what the entropy source may hand back.  The code
\* draws a length in 20..622 and that many bytes or 32-bit values.
SeedLenMin == 20
CryptoPool ==
  { [i \in 1..SeedLenMin |-> (i * 37 + 11) % 128],
    [i \in 1..SeedLenMin |-> (i * 101 + 7) % 128] }

NumSeed(n) == [t |-> "num", n |-> n, a |-> <<>>]
ArrSeed(a) == [t |-> "arr", n |-> 0, a |-> a]
UndefSeed == [t |-> "undefined", n |-> 0, a |-> <<>>]
NullSeed == [t |-> "null", n |-> 0, a |-> <<>>]

\* a withCrypto that initializes the state and leaves $state.seed unset
withCryptoUnset(m, r) ==
  The({[seed |-> UndefSeed, mt |-> w.mt, mti |-> w.mti] : w \in {withArray(m, r)}})

\* $private.seed.withCrypto with the random seed array r
withCrypto(m, r) ==
  The({[seed |-> ArrSeed([i \in DOMAIN r |-> r[i] * Unit]), mt |-> w.mt, mti |-> w.mti] :
       w \in {withArray(m, r)}})

\* an ensureUint that finds every number unsafe
ensureUintUnsafe(num) == 0 - Unit

\* an ensureUint that cuts the decimals off
ensureUintTrunc(num) ==
  IF num = Inf \/ num = NaN THEN 0 - Unit ELSE (Abs(num) \div Unit) * Unit

\* ensureUint of $private.init; -1 is the number -1
ensureUint(num) ==
  IF num = Inf THEN 0 - Unit
  ELSE IF num = NaN THEN 0 - Unit
  ELSE LET pos == IF num < 0 THEN Abs(num) ELSE num
       IN  IF pos % Unit # 0 THEN ToFixed(pos, 0) ELSE pos

\* the instance $private.init leaves for the checked seed `seed`
Seeded1(seed, w) == [seed |-> seed, mt |-> w.mt, mti |-> w.mti]

\* $private.init(withSeed): the instances it may leave, one per random seed
init(m, withSeed) ==
  IF withSeed.t = "num"
  THEN The({IF ss >= 0
            THEN {The({Seeded1(NumSeed(ss), w) : w \in {withInt(m, ss \div Unit)}})}
            ELSE {withCrypto(m, r) : r \in CryptoPool} :
            ss \in {ensureUint(withSeed.n)}})
  ELSE IF withSeed.t = "arr"
  THEN IF Len(withSeed.a) > 0
       THEN The({IF \E i \in DOMAIN ss : ss[i] = 0 - Unit
                 THEN {withCrypto(m, r) : r \in CryptoPool}
                 ELSE {The({Seeded1(ArrSeed(ss), w) :
                            w \in {withArray(m, [i \in DOMAIN ss |-> ss[i] \div Unit])}})} :
                 ss \in {[i \in DOMAIN withSeed.a |-> ensureUint(withSeed.a[i])]}})
       ELSE {withCrypto(m, r) : r \in CryptoPool}
  ELSE {withCrypto(m, r) : r \in CryptoPool}

\* new Uniform(seed): mt = new Array(N), every slot still empty
NewUniform(seedArg) == init([i \in 0..(N - 1) |-> {}], seedArg)

UM == {31}
LM == 0..30
MA == WordOf(39176, 45279)
TemperB == WordOf(40236, 22144)
TemperC == WordOf(61382, 0)
mag01(y) == IF 0 \in y THEN MA ELSE {}

\* mt[kk] = mt[from] ^ (y >>> 1) ^ mag01[y & 1], y of mt[kk] and mt[next]
TwistAt(m, kk, next, from) ==
  The({[m EXCEPT ![kk] = Xor(Xor(m[from], Shr(y, 1)), mag01(y))] :
       y \in {(m[kk] \cap UM) \cup (m[next] \cap LM)}})

RECURSIVE Twist(_, _)
\* the three loops of int32 that regenerate the whole state
Twist(m, kk) ==
  IF kk < N - M
  THEN The({Twist(m1, kk + 1) : m1 \in {TwistAt(m, kk, kk + 1, kk + M)}})
  ELSE IF kk < N - 1
  THEN The({Twist(m1, kk + 1) : m1 \in {TwistAt(m, kk, kk + 1, kk + (M - N))}})
  ELSE TwistAt(m, N - 1, 0, M - 1)

Temper(y0) ==
  The({The({The({Xor(y3, Shr(y3, 18)) :
                 y3 \in {Xor(y2, Shl(y2, 15) \cap TemperC)}}) :
            y2 \in {Xor(y1, Shl(y1, 7) \cap TemperB)}}) :
       y1 \in {Xor(y0, Shr(y0, 11))}})

\* mti before the constructor has run init
Null == 0 - 1

\* $private.int32: mti is never null once the constructor has run init, and
\* null + 1 is 1
int32(u) ==
  The({[mt |-> m1, mti |-> 0 + 1, y |-> Temper(m1[0 + 1])] :
       m1 \in {IF u.mti # Null THEN Twist(u.mt, 0) ELSE u.mt}})

RECURSIVE Frac53(_, _, _)
\* the first k decimals of (a * 2^26 + b) / 2^53, by long division
Frac53(a, b, k) ==
  IF k = 0 THEN 0
  ELSE The({The({((u \div (2 ^ 27)) * (10 ^ (k - 1)))
                 + Frac53(u % (2 ^ 27), t % (2 ^ 26), k - 1) :
                 u \in {a * 10 + (t \div (2 ^ 26))}}) :
            t \in {b * 10}})

\* x * y of Uniform.random: ((c >>> 5) * 67108864 + (c >>> 6)) / 2^53
Quotient53(c) ==
  The({Frac53(a, b, Places) :
       a \in {BitSum(Shr(c, 5), 0, 26)}, b \in {BitSum(Shr(c, 6), 0, 25)}})

\* the quotient handed back as it is, no fix applied
UnfixedOf(c) == Quotient53(c)

\* the number Uniform.random makes of the word c
RealOf(c) == floatingPointFix(Quotient53(c))

\* Uniform.random: the instance after the call and the value returned
random(u) ==
  The({[u |-> [seed |-> u.seed, mt |-> g.mt, mti |-> g.mti], value |-> RealOf(g.y)] :
       g \in {int32(u)}})

\* The seeds explored, and for each the instances init leaves
Seeds ==
  { UndefSeed, NumSeed(0), NumSeed(Unit), NumSeed(NaN),
    ArrSeed(<<Unit, 2 * Unit, 3 * Unit>>), ArrSeed(<<>>) }
Seeded == [s \in Seeds |-> NewUniform(s)]

\* a seed that initializes again whatever it is given
UniformSeedAlways(u, seedArg) == init(u.mt, seedArg)

\* Uniform.seed($seed): the instances it may leave; $state.seed of the
\* instance left is what the call returns
UniformSeed(u, seedArg) ==
  IF seedArg.t \in {"undefined", "null"} THEN {u}
  ELSE init(u.mt, seedArg)

(***************************************************************************)
(* Math.log, Math.sqrt and Math.cos, computed to about three decimals      *)
(***************************************************************************)
\* the decimal number 0.abc def, a and b below 1000
Dec6(a, b) == a * (Unit \div 1000) + b * (Unit \div 1000000)
Ln2 == Dec6(693, 147)

\* ln of a number in [1, 2): 2 atanh((x - 1) / (x + 1)), five terms
LnSeries(x) ==
  The({The({2 * Mul(z, Unit + Mul(z2, (Unit \div 3) + Mul(z2, (Unit \div 5)
                     + Mul(z2, (Unit \div 7) + Mul(z2, Unit \div 9))))) :
            z2 \in {Mul(z, z)}}) :
       z \in {Div(x - Unit, x + Unit)}})

RECURSIVE MathLog(_)
MathLog(x) ==
  IF x < Unit THEN The({MathLog(y) : y \in {2 * x}}) - Ln2
  ELSE IF x >= 2 * Unit THEN The({MathLog(y) : y \in {x \div 2}}) + Ln2
  ELSE LnSeries(x)

RECURSIVE ISqrt(_, _, _)
\* the largest r in lo..hi with r * r <= n, by bisection
ISqrt(n, lo, hi) ==
  IF lo >= hi THEN lo
  ELSE The({IF mid * mid <= n THEN ISqrt(n, mid, hi) ELSE ISqrt(n, lo, mid - 1) :
            mid \in {(lo + hi + 1) \div 2}})

MathSqrt(x) ==
  The({ISqrt(n, 0, 40000) * (10 ^ ((Places + (Places % 2)) \div 2)) :
       n \in {x \div (10 ^ (Places % 2))}})

\* cos(2 pi t) for t in [0, 1/4]: (1 - 16 t^2) / (1 + 4 t^2)
CosQuarter(t) ==
  The({Div(Unit - 16 * t2, Unit + 4 * t2) : t2 \in {Mul(t, t)}})

\* Math.cos(2.0 * Math.PI * v) for v in [0, 1]
Cos2Pi(v) ==
  IF 4 * v <= Unit THEN CosQuarter(v)
  ELSE IF 2 * v <= Unit THEN 0 - CosQuarter((Unit \div 2) - v)
  ELSE IF 4 * v <= 3 * Unit THEN 0 - CosQuarter(v - (Unit \div 2))
  ELSE CosQuarter(Unit - v)

RECURSIVE IntPow(_, _)
IntPow(x, k) == IF k = 0 THEN Unit ELSE Mul(x, IntPow(x, k - 1))

\* num ** e for num in [0, 1] and an exponent that is a multiple of 1/2
Pow(num, e) ==
  IF e % Unit = 0 THEN IntPow(num, e \div Unit)
  ELSE The({IntPow(r, (2 * e) \div Unit) : r \in {MathSqrt(num)}})

(***************************************************************************)
(* Values of optional and ill-typed arguments                              *)
(***************************************************************************)
Undefined == 0 - (2 ^ 30 + 1)
\* an argument whose typeof is not "number", a string say
NonNumber == 0 - (2 ^ 30 + 2)
IsNumber(v) == v \notin {Undefined, NonNumber}
IsFinite(v) == v \notin {Undefined, NonNumber, NaN, Inf, NegInf}
isSafeInteger(v) == IsFinite(v) /\ v % Unit = 0

(***************************************************************************)
(* Gaussian(uniformGenerator, skew)                                        *)
(***************************************************************************)
scaleSkew(sk) ==
  IF sk = 0 THEN Unit
  ELSE The({IF sk < 0 THEN Unit - n ELSE ScaledScale(n, 0, Unit, 0, 4 * Unit) :
            n \in {ScaledClip(Abs(sk), 0, Unit)}})

\* a loop that draws once more than it has to
DrawNonZeroAndOne(u) ==
  The({[u |-> random(r.u).u, value |-> r.value, n |-> 2] : r \in {random(u)}})

RECURSIVE DrawNonZero(_)
\* while (u === 0) u = uniformGenerator.random(); n counts the draws made
DrawNonZero(u) ==
  The({IF r.value = 0
       THEN The({[d EXCEPT !.n = @ + 1] : d \in {DrawNonZero(r.u)}})
       ELSE [u |-> r.u, value |-> r.value, n |-> 1] :
       r \in {random(u)}})

\* the Box-Muller value of the draws u and v, scaled back to 0-1
BoxMuller(u, v) ==
  The({floatingPointFix((num \div 10) + (Unit \div 2)) :
       num \in {floatingPointFix(Mul(MathSqrt(0 - 2 * MathLog(u)), Cos2Pi(v)))}})

\* no resampling: num is kept wherever it lies
NotResampled(num, skew) == {num}

\* the values a call may return once num is known: num itself, or a value of
\* Gaussian(new Uniform(), skew) when num is out of range
RECURSIVE Gaussian(_, _)
Resampled(num, skew) ==
  The({IF x > Unit \/ x < 0
       THEN {g.value : g \in UNION {Gaussian(fresh, skew) :
                                     fresh \in NewUniform(UndefSeed)}}
       ELSE {x} :
       x \in {num}})

\* the outcomes of one call: the generator after it and the value returned;
\* skewArg is Undefined when the caller passes none (the default is 0)
Gaussian(gen, skewArg) ==
  UNION {UNION {{[u |-> dv.u, n |-> du.n + dv.n,
                  value |-> floatingPointFix(Pow(x, skew))] :
                 x \in Resampled(BoxMuller(du.value, dv.value), skew)} :
                dv \in {DrawNonZero(du.u)}} :
         du \in {DrawNonZero(gen)},
         skew \in {scaleSkew(IF skewArg = Undefined THEN 0 ELSE skewArg)}}

\* the values a call may return when its two non-zero draws are u and v
GaussianOf(u, v, skewArg) ==
  UNION {{floatingPointFix(Pow(x, skew)) : x \in Resampled(BoxMuller(u, v), skew)} :
         skew \in {scaleSkew(IF skewArg = Undefined THEN 0 ELSE skewArg)}}

(***************************************************************************)
(* Elemstats: mean, median, modes and stdDev of an array of numbers        *)
(***************************************************************************)
\* what a call returns when it throws a TypeError
TypeError == 0 - (2 ^ 30 + 3)

RECURSIVE SumFrom(_, _)
\* arr.reduce((previous, current) => (current += previous)) up to index i
SumFrom(arr, i) == IF i = 1 THEN arr[1] ELSE SumFrom(arr, i - 1) + arr[i]

\* a mean whose reduce starts from 0: 0 / 0 on an empty array
ElemMeanFromZero(arr) ==
  IF Len(arr) = 0 THEN NaN
  ELSE floatingPointFix(Div(SumFrom(arr, Len(arr)), Len(arr) * Unit))

\* Elemstats.mean: reduce with no initial value throws on an empty array
ElemMean(arr) ==
  IF Len(arr) = 0 THEN TypeError
  ELSE floatingPointFix(Div(SumFrom(arr, Len(arr)), Len(arr) * Unit))

\* arr.sort((a, b) => a - b)
SortNumeric(arr) == SortSeq(arr, LAMBDA a, b : a < b)

\* a median that reads the upper middle element alone
ElemMedianUpper(arr) ==
  The({[arr   |-> s,
        value |-> IF Len(s) = 0 THEN NaN
                  ELSE floatingPointFix(s[(Len(s) \div 2) + 1])] :
       s \in {SortNumeric(arr)}})

\* Elemstats.median: the array as the in-place sort leaves it, and the value;
\* on an empty array both elements read are undefined and the sum is NaN
ElemMedian(arr) ==
  The({[arr   |-> s,
        value |-> IF Len(s) = 0 THEN NaN
                  ELSE floatingPointFix(
                         Div(s[((Len(s) - 1) \div 2) + 1] + s[(Len(s) \div 2) + 1],
                             2 * Unit))] :
       s \in {SortNumeric(arr)}})

\* counts[number] after the first forEach
CountOf(arr, number) == Cardinality({i \in DOMAIN arr : arr[i] = number})

\* a number that, as a property key of an array, is an index of it
IsArrayIndex(number) == IsFinite(number) /\ number >= 0 /\ number % Unit = 0

RECURSIVE Ascending(_)
\* the numbers of S in ascending order
Ascending(S) ==
  IF S = {} THEN <<>>
  ELSE The({<<lo>> \o Ascending(S \ {lo}) :
            lo \in {CHOOSE x \in S : \A y \in S : x <= y}})

\* Elemstats.modes: counts is an array, so counts.forEach visits, in ascending
\* order, the counts kept under array indices and no other
ElemModes(arr) ==
  The({The({[i \in DOMAIN found |-> floatingPointFix(found[i])] :
            found \in {Ascending({arr[i] : i \in
                         {j \in DOMAIN arr :
                            IsArrayIndex(arr[j]) /\ CountOf(arr, arr[j]) = mx}})}}) :
       mx \in {IF Len(arr) = 0 THEN 0
               ELSE CHOOSE c \in 1..Len(arr) :
                      /\ \E i \in DOMAIN arr : CountOf(arr, arr[i]) = c
                      /\ \A i \in DOMAIN arr : CountOf(arr, arr[i]) <= c}})

\* Math.max(...arr) of a non-empty array
MathMax(arr) == CHOOSE x \in {arr[i] : i \in DOMAIN arr} : \A i \in DOMAIN arr : arr[i] <= x

\* Elemstats.stdDev
ElemStdDev(arr) ==
  IF Len(arr) = 0 THEN TypeError
  ELSE The({The({ScaledScale(avgSqRt, 0, MathMax(arr), 0, Unit) :
                 avgSqRt \in {floatingPointFix(MathSqrt(ElemMean(
                   [i \in DOMAIN arr |->
                      The({floatingPointFix(Mul(diff, diff)) :
                           diff \in {floatingPointFix(arr[i] - avg)}})])))}}) :
            avg \in {ElemMean(arr)}})

(***************************************************************************)
(* History: the array and the closure variable max                         *)
(***************************************************************************)
\* new History(maxHistory): max = maxHistory ?? Infinity
NewHistoryMax(maxHistory) == IF maxHistory = Undefined THEN Inf ELSE maxHistory

\* History.max(size): the max it leaves
HistoryMax(mx, size) ==
  IF size # Undefined
  THEN IF isSafeInteger(size) THEN size ELSE mx
  ELSE mx

\* this.length >= max
LengthAtLeast(h, mx) == mx # NaN /\ mx # Inf /\ Len(h) * Unit >= mx

\* a push that never makes room, and one that drops the item
PushKeepAll(h, mx, item) == Append(h, item)
PushNone(h, mx, item) == h

\* History.push(item): one item, so the loop body runs once
HistoryPush(h, mx, item) ==
  LET shifted == IF LengthAtLeast(h, mx) /\ Len(h) > 0 THEN Tail(h) ELSE h
  IN  Append(shifted, item)

VARIABLES
  uniform,   \* the Roll's generator: [seed, mt, mti]
  history,   \* the Roll's history, oldest first: what history() returns
  max,       \* the history's capacity
  op,        \* the last operation called
  arg1,      \* its first argument
  arg2,      \* its second argument
  ret,       \* what it returned: a number, or the seed for seed
  draws,     \* draw operations made so far on the Roll
  twin       \* a second generator built from the same seed argument:
             \* [arg, uniform, out], out the numbers it has returned

vars == <<uniform, history, max, op, arg1, arg2, ret, draws, twin>>

(***************************************************************************)
(* Roll: the arguments explored                                            *)
(***************************************************************************)
OptSeeds == {NumSeed(Unit)}
OptMaxHistory == {Undefined, 2 * Unit, (5 * Unit) \div 2}
SeedArgs == {ArrSeed(<<Unit, 2 * Unit, 3 * Unit>>), NullSeed}
SizeArgs == {Unit, (3 * Unit) \div 2, Undefined}
SkewArgs == {Undefined, 0}
\* the (sides, skew) pairs given to d
DArgs ==
  { <<6 * Unit, Undefined>>, <<6 * Unit, 0>>, <<(29 * Unit) \div 10, Undefined>>,
    <<NonNumber, Undefined>> }

NoTwin == [arg |-> UndefSeed, uniform |-> <<>>, out |-> <<>>]

\* new Roll({ seed, maxHistory })
Init ==
  /\ \E s \in OptSeeds : uniform \in Seeded[s]
  /\ history = <<>>
  /\ \E m \in OptMaxHistory : max = NewHistoryMax(m)
  /\ op = "new"
  /\ arg1 = Undefined
  /\ arg2 = Undefined
  /\ ret = Undefined
  /\ draws = 0
  /\ twin = NoTwin

\* a clearHistory that leaves the history as it is
keepHistory(h, mx) == [history |-> h, max |-> mx]

\* $private.clearHistory: the history and the max it leaves
clearHistory(h, mx) ==
  [history |-> <<>>, max |-> HistoryMax(NewHistoryMax(Undefined), mx)]

\* roll.seed($seed) with an argument other than undefined
RollSeed(s) ==
  /\ LET c == clearHistory(history, max)
     IN  history' = c.history /\ max' = c.max
  /\ uniform' \in UniformSeed(uniform, s)
  /\ op' = "seed"
  /\ arg1' = s
  /\ arg2' = Undefined
  /\ ret' = uniform'.seed
  /\ UNCHANGED <<draws, twin>>

\* roll.seed()
RollSeedGet ==
  /\ uniform' \in UniformSeed(uniform, UndefSeed)
  /\ op' = "seed"
  /\ arg1' = UndefSeed
  /\ arg2' = Undefined
  /\ ret' = uniform'.seed
  /\ UNCHANGED <<history, max, draws, twin>>

\* roll.maxHistory(size), size Undefined for roll.maxHistory()
RollMaxHistory(size) ==
  /\ max' = HistoryMax(max, size)
  /\ op' = "maxHistory"
  /\ arg1' = size
  /\ arg2' = Undefined
  /\ ret' = max'
  /\ UNCHANGED <<uniform, history, draws, twin>>

\* roll.clearHistory()
RollClearHistory ==
  /\ LET c == clearHistory(history, max)
     IN  history' = c.history /\ max' = c.max
  /\ op' = "clearHistory"
  /\ arg1' = Undefined
  /\ arg2' = Undefined
  /\ ret' = Undefined
  /\ UNCHANGED <<uniform, draws, twin>>

\* $private.uniform, which roll.uniform() and roll.random(skew) both call
privateUniform(name, skew) ==
  /\ draws < MaxDraws
  /\ \E r \in {random(uniform)} :
       /\ uniform' = r.u
       /\ history' = HistoryPush(history, max, r.value)
       /\ ret' = r.value
  /\ draws' = draws + 1
  /\ op' = name
  /\ arg1' = skew
  /\ arg2' = Undefined
  /\ UNCHANGED <<max, twin>>

\* roll.uniform()
RollUniform == privateUniform("uniform", Undefined)

\* roll.random(skew): the binding passes no argument on
RollRandom(skew) == privateUniform("random", skew)

\* roll.gaussian(skew)
RollGaussian(skew) ==
  /\ draws < MaxDraws
  /\ \E g \in Gaussian(uniform, skew) :
       /\ uniform' = g.u
       /\ history' = HistoryPush(history, max, g.value)
       /\ ret' = g.value
  /\ draws' = draws + 1
  /\ op' = "gaussian"
  /\ arg1' = skew
  /\ arg2' = Undefined
  /\ UNCHANGED <<max, twin>>

\* the die value made of the draw r: new Scaled(r), scale(1, sides), round(0)
DieOf(r, sides) == ScaledRound(ScaledScale(r, 0, Unit, Unit, sides), 0)

\* a d that draws and pushes whatever sides is
privateDAlways(gen, sides, skew) ==
  {[u |-> r.u, value |-> NaN, pushed |-> TRUE] : r \in {random(gen)}}

\* $private.d(sides, skew) on the generator gen: the outcomes, each the
\* generator after the call, the value returned and whether it was pushed
privateD(gen, sides, skew) ==
  IF IsNumber(sides)
  THEN LET rs == IF IsNumber(skew) THEN Gaussian(gen, skew)
                 ELSE {random(gen)}
       IN  {[u |-> r.u, value |-> DieOf(r.value, sides), pushed |-> TRUE] : r \in rs}
  ELSE {[u |-> gen, value |-> NaN, pushed |-> FALSE]}

\* roll.d(sides, skew): the binding passes sides alone on
RollD(sides, skew) ==
  /\ IsNumber(sides) => draws < MaxDraws
  /\ \E r \in privateD(uniform, sides, Undefined) :
       /\ uniform' = r.u
       /\ history' = IF r.pushed THEN HistoryPush(history, max, r.value) ELSE history
       /\ ret' = r.value
       /\ draws' = IF r.pushed THEN draws + 1 ELSE draws
  /\ op' = "d"
  /\ arg1' = sides
  /\ arg2' = skew
  /\ UNCHANGED <<max, twin>>

\* the optional array argument of the statistics: left out, or the array a
NoArr == [given |-> FALSE, a |-> <<>>]
Given(a) == [given |-> TRUE, a |-> a]

\* $private.mean(arr): arr = arr || this.history(), history() a new array.
\* The outcome: the history and the caller's array as the call leaves them,
\* and the value returned
privateMean(h, arr) ==
  [history |-> h, arr |-> arr, value |-> ElemMean(IF arr.given THEN arr.a ELSE h)]

\* a median that sorts the history itself
privateMedianInPlace(h, arr) ==
  The({[history |-> IF arr.given THEN h ELSE m.arr,
        arr     |-> IF arr.given THEN Given(m.arr) ELSE arr,
        value   |-> m.value] :
       m \in {ElemMedian(IF arr.given THEN arr.a ELSE h)}})

\* $private.median(arr): Elemstats.median sorts the array it is handed, the
\* caller's own or the new one history() made
privateMedian(h, arr) ==
  The({[history |-> h,
        arr     |-> IF arr.given THEN Given(m.arr) ELSE arr,
        value   |-> m.value] :
       m \in {ElemMedian(IF arr.given THEN arr.a ELSE h)}})

\* $private.modes(arr)
privateModes(h, arr) ==
  [history |-> h, arr |-> arr, value |-> ElemModes(IF arr.given THEN arr.a ELSE h)]

\* $private.stdDev(arr)
privateStdDev(h, arr) ==
  [history |-> h, arr |-> arr, value |-> ElemStdDev(IF arr.given THEN arr.a ELSE h)]

\* a call of a statistic with the argument arr and the outcome r: arg2 is the
\* caller's array after the call
StatCall(name, arr, r) ==
  /\ history' = r.history
  /\ op' = name
  /\ arg1' = arr
  /\ arg2' = r.arr
  /\ ret' = r.value
  /\ UNCHANGED <<uniform, max, draws, twin>>

\* roll.mean(arr), roll.median(arr), roll.modes(arr), roll.standardDeviation(arr)
RollMean(arr) == StatCall("mean", arr, privateMean(history, arr))
RollMedian(arr) == StatCall("median", arr, privateMedian(history, arr))
RollModes(arr) == StatCall("modes", arr, privateModes(history, arr))
RollStandardDeviation(arr) ==
  StatCall("standardDeviation", arr, privateStdDev(history, arr))

Next ==
  \/ \E s \in SeedArgs : RollSeed(s)
  \/ RollSeedGet
  \/ \E size \in SizeArgs : RollMaxHistory(size)
  \/ RollClearHistory
  \/ RollUniform
  \/ \E skew \in SkewArgs : RollRandom(skew)
  \/ \E skew \in SkewArgs : RollGaussian(skew)
  \/ \E a \in DArgs : RollD(a[1], a[2])

Spec == Init /\ [][Next]_vars

\* the last operation inserted a value into the history
Inserted ==
  \/ op \in {"uniform", "random", "gaussian"}
  \/ op = "d" /\ IsNumber(arg1)

Last(h) == h[Len(h)]
(***************************************************************************)
(* Two generators built from one seed argument.  The Roll is the first,    *)
(* twin the second; each is constructed on its own, so each takes its own  *)
(* random seed when the argument is not a usable one.                      *)
(***************************************************************************)
InitDet ==
  /\ \E s \in Seeds :
       /\ uniform \in Seeded[s]
       /\ \E g \in Seeded[s] : twin = [arg |-> s, uniform |-> g, out |-> <<>>]
  /\ history = <<>>
  /\ max = NewHistoryMax(Undefined)
  /\ op = "new"
  /\ arg1 = Undefined
  /\ arg2 = Undefined
  /\ ret = Undefined
  /\ draws = 0

\* twin.random()
TwinRandom ==
  /\ Len(twin.out) < MaxDraws
  /\ \E r \in {random(twin.uniform)} :
       twin' = [twin EXCEPT !.uniform = r.u, !.out = Append(@, r.value)]
  /\ UNCHANGED <<uniform, history, max, op, arg1, arg2, ret, draws>>

NextDet ==
  \/ RollUniform
  \/ RollRandom(Undefined)
  \/ TwinRandom

SpecDet == InitDet /\ [][NextDet]_vars

(***************************************************************************)
(* Uniform.random on a given tempered word: arg1 is the word int32 has     *)
(* returned, ret the number random makes of it.                            *)
(***************************************************************************)
HalfSamples == {0, 1, 31, 32, 2048, 32767, 32768, 65519, 65535}
WordSamples == {WordOf(hi, lo) : hi \in HalfSamples, lo \in HalfSamples}

InitWord ==
  /\ arg1 \in WordSamples
  /\ op = "int32"
  /\ ret = Undefined
  /\ uniform = <<>>
  /\ history = <<>>
  /\ max = NewHistoryMax(Undefined)
  /\ arg2 = Undefined
  /\ draws = 0
  /\ twin = NoTwin

\* const c = $private.int32(), c any of the sample words
WordInt32(c) ==
  /\ op = "random"
  /\ op' = "int32"
  /\ arg1' = c
  /\ ret' = Undefined
  /\ UNCHANGED <<uniform, history, max, arg2, draws, twin>>

\* the rest of Uniform.random
WordRandom ==
  /\ op = "int32"
  /\ op' = "random"
  /\ ret' = RealOf(arg1)
  /\ UNCHANGED <<uniform, history, max, arg1, arg2, draws, twin>>

NextWord ==
  \/ \E c \in WordSamples : WordInt32(c)
  \/ WordRandom

SpecWord == InitWord /\ [][NextWord]_vars

(***************************************************************************)
(* Seeding: a Roll constructed with any seed, then re-seeded, asked for    *)
(* its seed and drawn from.  arg1 of the state after construction is the   *)
(* seed option given.                                                      *)
(***************************************************************************)
\* the seed options given to new Roll({ seed })
CtorSeeds ==
  { UndefSeed, NumSeed(0 - 3 * Unit), NumSeed(NaN), ArrSeed(<<>>),
    ArrSeed(<<Unit, 2 * Unit, 3 * Unit>>) }
\* the arguments given to roll.seed($seed)
ReseedArgs ==
  { NumSeed(0), ArrSeed(<<Unit, 2 * Unit, 3 * Unit>>),
    NumSeed((3 * Unit) \div 2),
    ArrSeed(<<0 - ((14 * Unit) \div 10), (26 * Unit) \div 10>>),
    ArrSeed(<<Unit, NaN>>), NumSeed(Inf), NullSeed }

InitSeed ==
  /\ \E s \in CtorSeeds :
       /\ uniform \in NewUniform(s)
       /\ arg1 = s
  /\ history = <<>>
  /\ max = NewHistoryMax(Undefined)
  /\ op = "new"
  /\ arg2 = Undefined
  /\ ret = Undefined
  /\ draws = 0
  /\ twin = NoTwin

NextSeed ==
  \/ \E s \in ReseedArgs : RollSeed(s)
  \/ RollSeedGet
  \/ RollUniform

SpecSeed == InitSeed /\ [][NextSeed]_vars
(***************************************************************************)
(* Gaussian on given draws: arg1 is the skew, arg2 the two non-zero draws  *)
(* u and v the generator has returned, ret the number Gaussian makes of    *)
(* them.                                                                   *)
(***************************************************************************)
GaussU == {1, 3, Unit \div 1000, Unit \div 2, Unit}
GaussV == {Unit \div 8, Unit \div 2, Unit}
GaussSkews ==
  {Undefined, 0 - Unit, 0 - (Unit \div 2), 0, Unit \div 8, Unit \div 2, Unit}

InitGauss ==
  /\ arg1 \in GaussSkews
  /\ arg2 \in GaussU \X GaussV
  /\ op = "draws"
  /\ ret = Undefined
  /\ uniform = <<>>
  /\ history = <<>>
  /\ max = NewHistoryMax(Undefined)
  /\ draws = 0
  /\ twin = NoTwin

\* u = uniformGenerator.random(); v = uniformGenerator.random()
GaussDraws(u, v, skew) ==
  /\ op = "gaussian"
  /\ op' = "draws"
  /\ arg1' = skew
  /\ arg2' = <<u, v>>
  /\ ret' = Undefined
  /\ UNCHANGED <<uniform, history, max, draws, twin>>

\* the rest of Gaussian
GaussApply ==
  /\ op = "draws"
  /\ op' = "gaussian"
  /\ ret' \in GaussianOf(arg2[1], arg2[2], arg1)
  /\ UNCHANGED <<uniform, history, max, arg1, arg2, draws, twin>>

NextGauss ==
  \/ \E u \in GaussU, v \in GaussV, skew \in GaussSkews : GaussDraws(u, v, skew)
  \/ GaussApply

SpecGauss == InitGauss /\ [][NextGauss]_vars

(***************************************************************************)
(* Statistics: a Roll drawn from with uniform and d, and asked for the     *)
(* statistics of its history or of an array handed in.                     *)
(***************************************************************************)
StatArgs ==
  { NoArr, Given(<<>>), Given(<<2 * Unit, Unit>>),
    Given(<<Unit \div 2, Unit \div 2, Unit>>),
    Given(<<0 - Unit, 0 - Unit, 2 * Unit>>),
    Given(<<3 * Unit, Unit, 5 * Unit, 2 * Unit, 4 * Unit>>),
    Given(<<3 * Unit, Unit, 2 * Unit, 5 * Unit, 2 * Unit, 4 * Unit>>),
    Given(<<Unit - 1>>),
    Given(<<0 - (3 * Unit), Unit>>) }

InitStats ==
  /\ uniform \in Seeded[NumSeed(Unit)]
  /\ history = <<>>
  /\ max = NewHistoryMax(Undefined)
  /\ op = "new"
  /\ arg1 = Undefined
  /\ arg2 = Undefined
  /\ ret = Undefined
  /\ draws = 0
  /\ twin = NoTwin

NextStats ==
  \/ RollUniform
  \/ RollD(6 * Unit, Undefined)
  \/ \E arr \in StatArgs : RollMean(arr)
  \/ \E arr \in StatArgs : RollMedian(arr)
  \/ \E arr \in StatArgs : RollModes(arr)
  \/ \E arr \in StatArgs : RollStandardDeviation(arr)

SpecStats == InitStats /\ [][NextStats]_vars

(***************************************************************************)
(* The static functions on given arguments: arg1 is the value, arg2 the    *)
(* ranges r1 and r2 and the number of places, ret what the call returns.   *)
(***************************************************************************)
\* the target range left out of a call
NoRange == <<>>

\* Roll.scale(value, r1, r2) as published: with r2 left out, r1 is the target
\* range when neither r1[0] is 0 nor r1[1] is 1; otherwise Scaled.scale reads
\* r2[1] of undefined and throws.  (The TypeScript source, Roll.ts 306-312,
\* hands r2 to Scaled.scale in every case.)
RollScale(value, r1, r2) ==
  IF r1[1] # 0 /\ r1[2] # Unit /\ r2 = NoRange
    THEN ScaledScale(value, 0, Unit, r1[1], r1[2])
  ELSE IF r2 = NoRange THEN TypeError
  ELSE ScaledScale(value, r1[1], r1[2], r2[1], r2[2])

ScaledValues ==
  { 0, Unit \div 2, (4 * Unit) \div 10, (149 * Unit) \div 1000,
    (15 * Unit) \div 100, 0 - (Unit \div 2), 0 - ((15 * Unit) \div 100),
    0 - ((3 * Unit) \div 2), Unit - 1, Unit, 0 - Unit, 2 * Unit,
    (375 * Unit) \div 100, 10 * Unit }
ScaledRanges ==
  { <<0, Unit>>, <<0, 10 * Unit>>, <<0 - Unit, Unit>>, <<0, 3 * Unit>>,
    <<2 * Unit, 10 * Unit>>, <<0, Unit - 1>>, <<Unit, Unit>>, <<3 * Unit, 0>> }
RoundPlaces == {0, 1}

InitScaled ==
  /\ arg1 \in ScaledValues
  /\ arg2 \in [r1 : ScaledRanges, r2 : ScaledRanges, places : RoundPlaces]
  /\ op = "args"
  /\ ret = Undefined
  /\ uniform = <<>>
  /\ history = <<>>
  /\ max = NewHistoryMax(Undefined)
  /\ draws = 0
  /\ twin = NoTwin

\* a call, named name, on the arguments of the state
ScaledCall(name, value) ==
  /\ op = "args"
  /\ op' = name
  /\ ret' = value
  /\ UNCHANGED <<uniform, history, max, arg1, arg2, draws, twin>>

\* Scaled.scale(value, r1, r2)
ScaleApply ==
  ScaledCall("scale",
             ScaledScale(arg1, arg2.r1[1], arg2.r1[2], arg2.r2[1], arg2.r2[2]))

\* Scaled.scale(scaled, r2, r1): the number scale returned, scaled back
ScaleBack ==
  /\ op = "scale"
  /\ IsFinite(ret)
  /\ op' = "scaleBack"
  /\ ret' = ScaledScale(ret, arg2.r2[1], arg2.r2[2], arg2.r1[1], arg2.r1[2])
  /\ UNCHANGED <<uniform, history, max, arg1, arg2, draws, twin>>

\* Scaled.clip(value, r1)
ClipApply == ScaledCall("clip", ScaledClip(arg1, arg2.r1[1], arg2.r1[2]))

\* Scaled.clip(clipped, r1): the number clip returned, clipped again
ClipAgain ==
  /\ op = "clip"
  /\ op' = "clipAgain"
  /\ arg1' = ret
  /\ ret' = ScaledClip(ret, arg2.r1[1], arg2.r1[2])
  /\ UNCHANGED <<uniform, history, max, arg2, draws, twin>>

\* Scaled.round(value, places)
RoundApply == ScaledCall("round", ScaledRound(arg1, arg2.places))

\* Roll.scale(value, r1, r2) and Roll.scale(value, r1)
RollScaleApply(given) ==
  ScaledCall(IF given THEN "Roll.scale(value, r1, r2)" ELSE "Roll.scale(value, r1)",
             RollScale(arg1, arg2.r1, IF given THEN arg2.r2 ELSE NoRange))

NextScaled ==
  \/ ScaleApply
  \/ ScaleBack
  \/ ClipApply
  \/ ClipAgain
  \/ RoundApply
  \/ \E given \in BOOLEAN : RollScaleApply(given)

SpecScaled == InitScaled /\ [][NextScaled]_vars

(***************************************************************************)
(* Draws consumed: Rolls made with seeds chosen for the draws they give    *)
(* first.  A draw below the resolution of the model is the draw 0.         *)
(***************************************************************************)
\* new Uniform([21, 89, 64, 5]): u = 0.000001 and v = 0.017988 come first, a
\* Box-Muller number above 1
TinyDraw == The(NewUniform(ArrSeed(<<21 * Unit, 89 * Unit, 64 * Unit, 5 * Unit>>)))
\* new Uniform([12, 1, 155]): 0 comes first, then 0.905556 and 0.547298
ZeroDraw == The(NewUniform(ArrSeed(<<12 * Unit, Unit, 155 * Unit>>)))

ConsumeSkews == {Undefined, 0 - (Unit \div 2), Unit \div 2}

InitConsume ==
  /\ uniform \in {TinyDraw, ZeroDraw} \cup Seeded[NumSeed(Unit)]
  /\ history = <<>>
  /\ max = NewHistoryMax(Undefined)
  /\ op = "new"
  /\ arg1 = Undefined
  /\ arg2 = Undefined
  /\ ret = Undefined
  /\ draws = 0
  /\ twin = NoTwin

NextConsume ==
  \/ RollUniform
  \/ \E skew \in ConsumeSkews : RollGaussian(skew)

SpecConsume == InitConsume /\ [][NextConsume]_vars

(***************************************************************************)
(* Statistics of the history: a Roll drawn from, cleared and reseeded, and *)
(* asked for the mean and the standard deviation of its history.           *)
(***************************************************************************)
EmptySeeds == {NumSeed(Unit), NumSeed(2 * Unit)}

InitEmpty ==
  /\ uniform \in Seeded[NumSeed(Unit)]
  /\ history = <<>>
  /\ max = NewHistoryMax(Undefined)
  /\ op = "new"
  /\ arg1 = Undefined
  /\ arg2 = Undefined
  /\ ret = Undefined
  /\ draws = 0
  /\ twin = NoTwin

NextEmpty ==
  \/ RollUniform
  \/ RollClearHistory
  \/ \E s \in EmptySeeds : RollSeed(s)
  \/ RollMean(NoArr)
  \/ RollStandardDeviation(NoArr)

SpecEmpty == InitEmpty /\ [][NextEmpty]_vars

(***************************************************************************)
(* Properties                                                              *)
(***************************************************************************)
\* a seed argument the generator takes as it is: a non-negative integer or a
\* non-empty array of them
ValidSeed(s) ==
  \/ s.t = "num" /\ IsFinite(s.n) /\ s.n >= 0 /\ s.n % Unit = 0
  \/ /\ s.t = "arr"
     /\ Len(s.a) > 0
     /\ \A i \in DOMAIN s.a : IsFinite(s.a[i]) /\ s.a[i] >= 0 /\ s.a[i] % Unit = 0

\* C1.  Determinism: two generators constructed each on its own from the same
\* valid seed (an integer or an array of integers) return the same numbers,
\* draw for draw, however many each has made.
C1_Determinism ==
  ValidSeed(twin.arg) =>
    \A i \in 1..Min2(Len(history), Len(twin.out)) : history[i] = twin.out[i]

C1_Witness ==
  /\ twin.arg = ArrSeed(<<Unit, 2 * Unit, 3 * Unit>>)
  /\ Len(history) = MaxDraws
  /\ history = twin.out
  /\ history[1] # history[2]

\* C2.  History bound: with an integer capacity k >= 1 that the history has not
\* outgrown, a draw made while the history holds fewer than k values adds the
\* value at the end, and a draw made while it holds k drops the oldest, moves
\* the others one place to the front and puts the new value last; so after k+m
\* draws the history holds exactly the last k values in insertion order.
C2_HistoryBound ==
  [][(draws' = draws + 1 /\ isSafeInteger(max) /\ max >= Unit
        /\ Len(history) * Unit <= max)
       => /\ Len(history') * Unit <= max'
          /\ history' = IF Len(history) * Unit = max
                        THEN Append(Tail(history), ret')
                        ELSE Append(history, ret')]_vars

C2_Witness ==
  /\ Inserted
  /\ draws >= 3
  /\ max = 2 * Unit
  /\ Len(history) = 2
  /\ Last(history) = ret
  /\ history[1] # history[2]

\* C3.  Capacity invariant: right after an insertion the history is never
\* longer than the current (integer) capacity, also when maxHistory(size) has
\* lowered the capacity below the length the history had.
C3_CapacityInvariant ==
  (Inserted /\ isSafeInteger(max)) => Len(history) * Unit <= max

\* C4.  Clear-on-reseed: right after seed(s) with a seed argument the history
\* is empty.
C4_ClearOnReseed == (op = "seed" /\ arg1 # UndefSeed) => history = <<>>

C4_Witness ==
  /\ op = "seed"
  /\ arg1 = ArrSeed(<<Unit, 2 * Unit, 3 * Unit>>)
  /\ uniform.seed = arg1
  /\ draws >= 1
  /\ history = <<>>

\* C5.  Capacity frame condition: the capacity changes only in a call of
\* maxHistory(size) with a safe-integer size; clearHistory, seed(s), the draws
\* and maxHistory with another size leave it as it was, whatever it was.
C5_CapacityFrame ==
  [][max' # max => (op' = "maxHistory" /\ isSafeInteger(arg1'))]_vars

\* C6.  Die range: for numeric sides >= 1, integer or not, d returns an
\* integer in [1, floor(sides)].
C6_DieRange ==
  (op = "d" /\ IsFinite(arg1) /\ arg1 >= Unit)
    => (ret % Unit = 0 /\ ret >= Unit /\ ret <= (arg1 \div Unit) * Unit)

\* C7.  Invalid sides: d with a sides that is not a number returns NaN and
\* leaves the history, the capacity, the seed and the generator state alone.
C7_InvalidSides ==
  [][(op' = "d" /\ arg1' = NonNumber)
       => (ret' = NaN /\ uniform' = uniform /\ history' = history /\ max' = max)]_vars

C7_Witness ==
  /\ op = "d"
  /\ arg1 = NonNumber
  /\ ret = NaN
  /\ Len(history) >= 1
  /\ draws < MaxDraws

\* C8.  Every successful draw (uniform, gaussian, random, d with numeric sides)
\* adds exactly one entry to the history, the newest, equal to the value
\* returned; for d that is the scaled and rounded die value, an integer.
C8_DrawRecorded ==
  [][Inserted'
       => /\ \/ history' = Append(history, ret')
             \/ history # <<>> /\ history' = Append(Tail(history), ret')
          /\ op' = "d" => ret' % Unit = 0 /\ ret' >= Unit]_vars

C8_Witness ==
  /\ op = "d"
  /\ arg1 = 6 * Unit
  /\ ret >= 2 * Unit
  /\ Len(history) >= 2
  /\ Last(history) = ret

\* C9.  Skew dispatch: random(skew) with a numeric skew does what gaussian(skew)
\* does and random() what uniform() does; d(sides, skew) makes its die value
\* of a gaussian(skew) draw when skew is a number and of a uniform draw when
\* skew is left out.
C9_SkewDispatch ==
  [][/\ (op' = "random" /\ IsNumber(arg1'))
          => \E g \in Gaussian(uniform, arg1') : uniform' = g.u /\ ret' = g.value
     /\ (op' = "random" /\ arg1' = Undefined)
          => \E r \in {random(uniform)} : uniform' = r.u /\ ret' = r.value
     /\ (op' = "d" /\ IsNumber(arg1') /\ IsNumber(arg2'))
          => \E g \in Gaussian(uniform, arg2') :
               uniform' = g.u /\ ret' = DieOf(g.value, arg1')
     /\ (op' = "d" /\ IsNumber(arg1') /\ arg2' = Undefined)
          => \E r \in {random(uniform)} :
               uniform' = r.u /\ ret' = DieOf(r.value, arg1')]_vars

\* C10.  Uniform range: of the tempered word c, random returns
\* ((c >>> 5) * 2^26 + (c >>> 6)) / 2^53 passed through the floating point
\* fix, a number in [0, 1].
C10_UniformRange ==
  op = "random" =>
    (ret = floatingPointFix(Quotient53(arg1)) /\ ret >= 0 /\ ret <= Unit)

C10_Witness ==
  /\ op = "random"
  /\ arg1 = WordOf(65535, 65535)
  /\ ret = Unit

\* C10 as worded: random returns ((c >>> 5) * 2^26 + (c >>> 6)) / 2^53 itself,
\* a number in [0, 1].
C10_Unfixed ==
  op = "random" => (ret = Quotient53(arg1) /\ ret >= 0 /\ ret <= Unit)

\* C12.  Seed normalization: of a finite number, or a non-empty array of
\* finite numbers, given as the seed at construction or to seed(s), the seed
\* kept and returned is the input with every number replaced by the nearest
\* integer to its absolute value, the array keeping its length and order; a
\* non-negative integer is kept as it is.
C12_SeedNormalization ==
  LET nearest(n) ==
        LET a  == Abs(n)
            lo == (a \div Unit) * Unit
        IN  IF 2 * (a - lo) >= Unit THEN lo + Unit ELSE lo
      finite(s) ==
        \/ s.t = "num" /\ IsFinite(s.n)
        \/ s.t = "arr" /\ Len(s.a) > 0 /\ \A i \in DOMAIN s.a : IsFinite(s.a[i])
      norm(s) ==
        IF s.t = "num" THEN NumSeed(nearest(s.n))
        ELSE ArrSeed([i \in DOMAIN s.a |-> nearest(s.a[i])])
  IN  (op \in {"new", "seed"} /\ finite(arg1))
        => /\ uniform.seed = norm(arg1)
           /\ op = "seed" => ret = norm(arg1)

C12_Witness ==
  /\ op = "seed"
  /\ arg1 = ArrSeed(<<0 - ((14 * Unit) \div 10), (26 * Unit) \div 10>>)
  /\ uniform.seed = ArrSeed(<<Unit, 3 * Unit>>)
  /\ ret = uniform.seed

\* C13.  Invalid seeds self-heal: a seed that is NaN, infinite or above
\* 2^53 - 1, an empty array, an array holding such a number, or no seed at
\* construction, is discarded as a whole: the seed kept and returned is a
\* random seed array freshly made, non-empty, of non-negative safe integers,
\* never undefined and never the input.
C13_InvalidSeedsSelfHeal ==
  LET bad(n) == n = NaN \/ n = Inf
      invalid(s) ==
        \/ s.t = "num" /\ bad(s.n)
        \/ s.t = "arr" /\ (Len(s.a) = 0 \/ \E i \in DOMAIN s.a : bad(s.a[i]))
        \/ s.t = "undefined" /\ op = "new"
  IN  (op \in {"new", "seed"} /\ invalid(arg1))
        => /\ uniform.seed.t = "arr"
           /\ Len(uniform.seed.a) >= 1
           /\ \A i \in DOMAIN uniform.seed.a :
                isSafeInteger(uniform.seed.a[i]) /\ uniform.seed.a[i] >= 0
           /\ uniform.seed # arg1
           /\ \E r \in CryptoPool : uniform.seed.a = [i \in DOMAIN r |-> r[i] * Unit]
           /\ op = "seed" => ret = uniform.seed

C13_Witness ==
  /\ op = "seed"
  /\ arg1 = ArrSeed(<<Unit, NaN>>)
  /\ uniform.seed.t = "arr"
  /\ Len(uniform.seed.a) = SeedLenMin
  /\ ret = uniform.seed
  /\ draws >= 1

\* C14.  The seed getter has no side effects: seed() with no argument returns
\* the seed kept and leaves the generator, the history and the capacity as
\* they were, so the draws that follow are those that would have followed.
C14_SeedGetterPure ==
  [][(op' = "seed" /\ arg1' = UndefSeed)
       => /\ uniform' = uniform
          /\ history' = history
          /\ max' = max
          /\ ret' = uniform.seed]_vars

C14_Witness ==
  /\ op = "seed"
  /\ arg1 = UndefSeed
  /\ ret = uniform.seed
  /\ ret = NumSeed(0)
  /\ Len(history) >= 1

\* C15.  Re-seeding replaces the whole generator state: after seed(S) with a
\* valid S, whatever was seeded and drawn before, the generator is in the
\* state of one freshly constructed with S (every word of mt and the cursor),
\* so its draws are the fresh generator's.
C15_ReseedReplacesState ==
  [][(op' = "seed" /\ arg1' \in Seeds /\ ValidSeed(arg1'))
       => /\ uniform' \in Seeded[arg1']
          /\ \E f \in Seeded[arg1'] : random(uniform').value = random(f).value]_vars

C15_Witness ==
  /\ op = "seed"
  /\ arg1 = NumSeed(0)
  /\ draws >= 2
  /\ history = <<>>
  /\ uniform \in Seeded[arg1]

\* C16.  Twist schedule: a draw twists the whole state only when the cursor
\* has run through all N words (every N-th call after a seeding); any other
\* draw leaves mt as it is and moves the cursor to the next word.
C16_TwistSchedule ==
  [][op' = "uniform"
       => IF uniform.mti >= N
          THEN uniform'.mt = Twist(uniform.mt, 0)
          ELSE uniform'.mt = uniform.mt /\ uniform'.mti = uniform.mti + 1]_vars

\* C17.  Reference conformance of array seeding: a valid seed array leaves
\* the state of the reference init_by_array: the single-integer expansion of
\* 19650218, the two passes with 1664525 and 1566083941, and mt[0] set to
\* 0x80000000.
C17_ReferenceArraySeeding ==
  (op \in {"new", "seed"} /\ arg1.t = "arr" /\ ValidSeed(arg1))
    => uniform.mt =
         The({The({The({[p2 EXCEPT ![0] = {31}] :
                        p2 \in {withArrayPass2(p1.mt, p1.i, N - 1)}}) :
                   p1 \in {withArrayPass1(w.mt, v, 1, 0,
                                          IF N > Len(v) THEN N ELSE Len(v))}}) :
              w \in {withInt([i \in 0..(N - 1) |-> {}], 19650218)},
              v \in {[i \in DOMAIN arg1.a |-> arg1.a[i] \div Unit]}})

\* C11.  Gaussian range: for every skew in [-1, 1] and every two draws,
\* gaussian(skew) returns a number in [0, 1], also when the first Box-Muller
\* value lies outside [0, 1] and another is drawn in its place.
C11_GaussianRange == op = "gaussian" => (ret >= 0 /\ ret <= Unit)

C11_Witness ==
  /\ op = "gaussian"
  /\ arg1 = Unit \div 2
  /\ BoxMuller(arg2[1], arg2[2]) > Unit
  /\ ret > 0
  /\ ret < Unit

\* C18.  The statistics are read-only on the Roll: mean(), median(), modes()
\* and standardDeviation() with no argument leave the history (contents and
\* order), the capacity, the seed and the generator state as they were.
C18_StatsReadOnly ==
  [][(op' \in {"mean", "median", "modes", "standardDeviation"} /\ ~arg1'.given)
       => (history' = history /\ max' = max /\ uniform' = uniform)]_vars

C18_Witness ==
  /\ op = "median"
  /\ ~arg1.given
  /\ Len(history) = 3
  /\ history[1] > history[2]
  /\ ret = SortNumeric(history)[2]

\* C19.  median(arr) works on a copy: after the call the caller's array holds
\* the same elements in the same order as before it.
C19_MedianCopies == (op = "median" /\ arg1.given) => arg2 = arg1

\* C20.  modes(arr) of a non-empty array, negative and fractional values
\* included, is the values that occur as often as the most frequent one, in
\* ascending order.
C20_Modes ==
  LET a       == arg1.a
      cnt(x)  == Cardinality({i \in DOMAIN a : a[i] = x})
      vals    == {a[i] : i \in DOMAIN a}
      top     == {x \in vals : \A y \in vals : cnt(y) <= cnt(x)}
  IN  (op = "modes" /\ arg1.given /\ Len(arg1.a) > 0) => ret = Ascending(top)

\* the array a statistic worked on: the one handed in, or the history
StatInput == IF arg1.given THEN arg1.a ELSE history

\* the k-th smallest element of the non-empty array a (k from 1)
KthSmallest(a, k) ==
  CHOOSE x \in {a[i] : i \in DOMAIN a} :
    /\ Cardinality({i \in DOMAIN a : a[i] < x}) < k
    /\ Cardinality({i \in DOMAIN a : a[i] <= x}) >= k

\* the average of the elements at positions floor((n-1)/2) and floor(n/2) of
\* the array a in ascending order
MiddleAverage(a) ==
  Div(KthSmallest(a, ((Len(a) - 1) \div 2) + 1) + KthSmallest(a, (Len(a) \div 2) + 1),
      2 * Unit)

C22_StdDevRange ==
  (op = "standardDeviation" /\ Len(StatInput) > 0) => (0 <= ret /\ ret <= Unit)

\* a call that returns hands back a number: finite, NaN or an infinity
Returns(v) == v \in {NaN, Inf, NegInf} \/ IsFinite(v)

\* C23.  scale(value, [r1min, r1max], r2) with r1min = r1max fails: it does
\* not return, so neither NaN nor an infinite value comes back.
C23_ZeroWidthFails ==
  (op = "scale" /\ arg2.r1[1] = arg2.r1[2]) => ~Returns(ret)

\* C24.  round(value, places) rounds to the nearest multiple of 10^-places,
\* a half going away from zero for positive and for negative values alike,
\* and less than a half going toward zero.
C24_RoundHalfAway ==
  LET step  == Unit \div (10 ^ arg2.places)
      lower == (Abs(arg1) \div step) * step
      rest  == Abs(arg1) % step
  IN  op = "round"
        => ret = Sign(arg1) * (IF 2 * rest >= step THEN lower + step ELSE lower)

C27_ScaleShorthand ==
  /\ (op = "Roll.scale(value, r1)" /\ arg2.r1 # <<0, Unit>>)
       => ret = ScaledScale(arg1, 0, Unit, arg2.r1[1], arg2.r1[2])
  /\ op = "Roll.scale(value, r1, r2)"
       => ret = ScaledScale(arg1, arg2.r1[1], arg2.r1[2], arg2.r2[1], arg2.r2[2])

\* C28.  When the rescaled Box-Muller number of the draws u and v is outside
\* [0,1], gaussian returns what one whole gaussian call on a new Uniform
\* returns for the skew the caller passed; otherwise it returns that number
\* raised to the exponent scaleSkew makes of the skew.
C28_Resample ==
  op = "gaussian"
    => The({IF num > Unit \/ num < 0
            THEN ret \in {g.value : g \in UNION {Gaussian(fresh, arg1) :
                                                  fresh \in NewUniform(UndefSeed)}}
            ELSE ret = floatingPointFix(
                         Pow(num, scaleSkew(IF arg1 = Undefined THEN 0 ELSE arg1))) :
            num \in {BoxMuller(arg2[1], arg2[2])}})

RECURSIVE AfterDraws(_, _)
\* the generator u after k calls of random
AfterDraws(u, k) ==
  IF k = 0 THEN u ELSE The({AfterDraws(r.u, k - 1) : r \in {random(u)}})

\* the number the k-th call of random on the generator u returns
DrawAt(u, k) == random(AfterDraws(u, k - 1)).value

\* from u to u2 some draws are consumed of which exactly two, the last among
\* them, are not 0, and every 0 is redrawn at once: zeros, u, zeros, v
TwoNonZeroDraws(u, u2) ==
  \E n \in 2..4 :
    /\ u2 = AfterDraws(u, n)
    /\ DrawAt(u, n) # 0
    /\ Cardinality({k \in 1..n : DrawAt(u, k) # 0}) = 2

\* C29.  A gaussian(skew) call on a Roll consumes from the Roll's generator
\* exactly two non-zero draws, a draw of 0 being redrawn, and nothing more
\* when the sample is resampled; a uniform() call consumes exactly one draw.
C29_DrawsConsumed ==
  [][/\ op' = "uniform" => uniform' = AfterDraws(uniform, 1)
     /\ op' = "gaussian" => TwoNonZeroDraws(uniform, uniform')]_vars

\* a gaussian call that resampled has returned
C29_Witness ==
  /\ op = "gaussian"
  /\ draws = 1
  /\ uniform = AfterDraws(TinyDraw, 2)
  /\ BoxMuller(DrawAt(TinyDraw, 1), DrawAt(TinyDraw, 2)) > Unit

\* C30.  On a Roll whose history is empty, mean() and standardDeviation()
\* with no argument throw (reduce of an empty array with no initial value)
\* and leave the history, the capacity and the generator as they were.
C30_EmptyStats ==
  [][(op' \in {"mean", "standardDeviation"} /\ ~arg1'.given /\ history = <<>>)
       => (ret' = TypeError /\ history' = history /\ max' = max
           /\ uniform' = uniform)]_vars

\* the statistic of a history emptied after a draw has thrown
C30_Witness ==
  /\ op \in {"mean", "standardDeviation"}
  /\ ~arg1.given
  /\ draws > 0
  /\ history = <<>>
  /\ ret = TypeError
====
